---- MODULE Spec2Model ----
(***************************************************************************)
(* Model of .github/scripts/generate_index.py: the vocabulary indexer that *)
(* walks the repository, reads every *.json file and writes a CSV index.   *)
(*                                                                         *)
(* Text that takes part in matching, suffix handling or ordering is a      *)
(* sequence of code points (".json" is <<46,106,115,111,110>>).  A path is *)
(* the sequence of its parts, as pathlib's Path.parts, the anchor "/"      *)
(* first.  Dictionary keys and exception names are TLA+ strings.           *)
(***************************************************************************)
EXTENDS Integers, Sequences, FiniteSets, TLC

\* ------------------------------------------------------------------ bounds
MaxFiles == 2      \* files in the tree of the generate runs
MaxTree  == 3      \* files in the tree of the discovery runs
MaxRuns  == 2      \* invocations of the script in a row

\* ------------------------------------------------------------- code points
Slash == 47
Dot   == 46
Star  == 42

DotJson  == <<46, 106, 115, 111, 110>>                    \* ".json"
Anchor   == <<Slash>>                                     \* "/"
n_a      == <<97>>                                        \* "a"
n_srv    == <<115, 114, 118>>                             \* "srv"
n_repo   == <<114, 101, 112, 111>>                        \* "repo"
n_git    == <<46, 103, 105, 116>>                         \* ".git"
n_github == <<46, 103, 105, 116, 104, 117, 98>>           \* ".github"
n_dvenv  == <<46, 118, 101, 110, 118>>                    \* ".venv"
n_venv   == <<118, 101, 110, 118>>                        \* "venv"
n_x_json == <<120>> \o DotJson                            \* "x.json"
n_a_json == <<97>> \o DotJson                             \* "a.json"
n_jj     == DotJson \o DotJson                            \* ".json.json"
n_b_txt  == <<98, 46, 116, 120, 116>>                     \* "b.txt"
n_index  == <<105, 110, 100, 101, 120, 46, 99, 115, 118>> \* "index.csv"
n_scripts == <<115, 99, 114, 105, 112, 116, 115>>         \* "scripts"
n_script_py == <<103, 101, 110, 101, 114, 97, 116, 101, 95>>
                  \o <<105, 110, 100, 101, 120, 46, 112, 121>> \* "generate_index.py"
n_default == <<118, 111, 99, 97, 98, 117, 108, 97, 114, 121, 95>> \o n_index
                                                   \* "vocabulary_index.csv"

\* ------------------------------------------------------- configuration
JSON_PATTERN == <<Star>> \o DotJson
EXCLUDE_DIRS == {n_git, n_github, n_dvenv, n_venv}
CSV_HEADERS  == <<"id", "filename", "url", "label", "namespaceUri",
                  "prefix", "format", "comment", "last_modified">>
FIELDS       == {"url", "label", "namespaceUri", "prefix", "format", "comment"}

\* ------------------------------------------------------- Python values
\* A value is its type and its str(): what csv writes for it.
PyStr(s)  == [type |-> "string", s |-> s]
EmptyStr  == PyStr(<<>>)
StrA      == PyStr(<<65>>)
Num5      == [type |-> "number", s |-> <<53>>]
JsonNull  == [type |-> "null", s |-> <<78, 111, 110, 101>>]
NoMembers == [k \in {} |-> EmptyStr]

\* ------------------------------------------------------- file entries
NoContent   == [form |-> "none", top |-> "none", members |-> NoMembers, rows |-> <<>>]
Undecodable == [form |-> "undecodable", top |-> "none", members |-> NoMembers, rows |-> <<>>]
InvalidJson == [form |-> "invalid", top |-> "none", members |-> NoMembers, rows |-> <<>>]
JsonObject(m) == [form |-> "json", top |-> "object", members |-> m, rows |-> <<>>]
JsonArray   == [form |-> "json", top |-> "array", members |-> NoMembers, rows |-> <<>>]
CsvText(rows) == [form |-> "csv", top |-> "none", members |-> NoMembers, rows |-> rows]

DirEntry       == [kind |-> "dir", perm |-> TRUE, content |-> NoContent, mtime |-> 1]
File(c, t)     == [kind |-> "file", perm |-> TRUE, content |-> c, mtime |-> t]
Unreadable     == [kind |-> "file", perm |-> FALSE, content |-> NoContent, mtime |-> 1]
Absent         == [kind |-> "absent", perm |-> FALSE, content |-> NoContent, mtime |-> 0]

VARIABLES REPO_ROOT, output, fs, now, pc, exc, json_files, i, records,
          warnings, runs, indexed, before, prev, scans

vars == <<REPO_ROOT, output, fs, now, pc, exc, json_files, i, records,
          warnings, runs, indexed, before, prev, scans>>

\* ------------------------------------------------------- pathlib / fnmatch
Max(S) == CHOOSE m \in S : \A n \in S : n <= m

\* str.__lt__: lexicographic order on code points
StrLess(s, t) ==
    \E k \in 1..Len(t) :
        /\ k <= Len(s) + 1
        /\ \A j \in 1..(k - 1) : s[j] = t[j]
        /\ (k = Len(s) + 1 \/ s[k] < t[k])

\* PurePath.__lt__: the parts are compared as lists, part by part
PathLess(p, q) ==
    \E k \in 1..Len(q) :
        /\ k <= Len(p) + 1
        /\ \A j \in 1..(k - 1) : p[j] = q[j]
        /\ (k = Len(p) + 1 \/ StrLess(p[k], q[k]))

\* fnmatch against a pattern of the shape "*literal"
fnmatch(nm, pattern) ==
    LET lit == Tail(pattern)
    IN  /\ Len(nm) >= Len(lit)
        /\ SubSeq(nm, Len(nm) - Len(lit) + 1, Len(nm)) = lit

\* PurePath.name, PurePath.parent
name(path)   == path[Len(path)]
parent(path) == SubSeq(path, 1, Len(path) - 1)

IsPrefix(p, q) == Len(p) <= Len(q) /\ SubSeq(q, 1, Len(p)) = p

\* PurePath.relative_to(root), for a path under root
relative_to(path, root) == SubSeq(path, Len(root) + 1, Len(path))

\* PurePath.suffix: from the last dot, unless that dot leads or ends the name
suffix(nm) ==
    LET dots == {k \in 1..Len(nm) : nm[k] = Dot}
    IN  IF dots = {} THEN <<>>
        ELSE IF 1 < Max(dots) /\ Max(dots) < Len(nm)
             THEN SubSeq(nm, Max(dots), Len(nm))
             ELSE <<>>

\* PurePath.with_suffix('')
with_suffix_empty(path) ==
    LET nm == name(path)
    IN  parent(path) \o <<SubSeq(nm, 1, Len(nm) - Len(suffix(nm)))>>

\* str() of a relative path: the parts joined by "/"
RECURSIVE str_path(_)
str_path(parts) ==
    IF parts = <<>> THEN <<>>
    ELSE IF Len(parts) = 1 THEN parts[1]
    ELSE parts[1] \o <<Slash>> \o str_path(Tail(parts))

\* datetime.fromtimestamp(t).isoformat() for 0 <= t <= 9 (UTC):
\* "1970-01-01T00:00:0t"
isoformat(t) ==
    <<49, 57, 55, 48, 45, 48, 49, 45, 48, 49, 84, 48, 48, 58, 48, 48, 58, 48>>
        \o <<48 + t>>

\* ------------------------------------------------------- the file system
\* fs maps the paths of files and of explicitly created directories to their
\* entries; every proper prefix of such a path is a directory too.
Paths(f) == UNION {{SubSeq(p, 1, k) : k \in 2..Len(p)} : p \in DOMAIN f}

Entry(f, path) ==
    IF path \in DOMAIN f THEN f[path]
    ELSE IF \E p \in DOMAIN f : IsPrefix(path, p) THEN DirEntry
    ELSE Absent

\* Path.rglob(pattern): every entry below root whose name matches
rglob(f, root, pattern) ==
    {p \in Paths(f) : IsPrefix(root, p) /\ Len(p) > Len(root) /\ fnmatch(name(p), pattern)}

\* Path.mkdir(parents=True, exist_ok=True)
mkdir(f, dir) ==
    IF Entry(f, dir).kind = "dir"
    THEN [raised |-> "none", fs |-> f]
    ELSE IF Entry(f, dir).kind = "file"
    THEN [raised |-> "FileExistsError", fs |-> f]
    ELSE IF \E k \in 2..(Len(dir) - 1) : Entry(f, SubSeq(dir, 1, k)).kind = "file"
    THEN [raised |-> "NotADirectoryError", fs |-> f]
    ELSE [raised |-> "none", fs |-> (dir :> DirEntry) @@ f]

\* ------------------------------------------------------- the script
\* mutant: only the directory that holds the file is looked at
should_exclude_parent(path) ==
    Len(path) >= 2 /\ path[Len(path) - 1] \in EXCLUDE_DIRS

should_exclude_path(path) ==
    \E k \in 1..Len(path) : path[k] \in EXCLUDE_DIRS

\* mutant: the list is returned in the order the walk produced it
unsorted(seq) == seq

\* sorted(): ascending by __lt__, equal elements in their given order
RECURSIVE sorted(_)
sorted(seq) ==
    IF seq = <<>> THEN <<>>
    ELSE LET least == {k \in 1..Len(seq) : \A j \in 1..Len(seq) : ~PathLess(seq[j], seq[k])}
             m     == CHOOSE k \in least : \A j \in least : k <= j
         IN  <<seq[m]>> \o sorted(SubSeq(seq, 1, m - 1) \o SubSeq(seq, m + 1, Len(seq)))

\* find_json_files, given the order in which rglob yields its matches
find_json_files(listing) ==
    LET keep(path) == ~should_exclude_path(path)
    IN  sorted(SelectSeq(listing, keep))

\* mutant: the default is returned whether or not the key is there
get_default(data, key, default) == default

\* dict.get(key, default)
get(data, key, default) ==
    IF key \in DOMAIN data THEN data[key] ELSE default

NoMetadata == [h \in {CSV_HEADERS[k] : k \in 1..Len(CSV_HEADERS)} |-> EmptyStr]

\* the dictionary extract_metadata builds from the parsed document
metadata_of(root, json_file, data, st_mtime) ==
    [h \in {CSV_HEADERS[k] : k \in 1..Len(CSV_HEADERS)} |->
        CASE h = "id"            -> PyStr(str_path(with_suffix_empty(relative_to(json_file, root))))
          [] h = "filename"      -> PyStr(name(json_file))
          [] h = "last_modified" -> PyStr(isoformat(st_mtime))
          [] OTHER               -> get(data, h, EmptyStr)]

\* extract_metadata: a dictionary, None after a warning, or an exception that
\* the except clause (json.JSONDecodeError, IOError) does not catch
extract_metadata(f, root, json_file) ==
    LET e == Entry(f, json_file)
    IN  IF e.kind # "file" \/ ~e.perm
        THEN [outcome |-> "None", raised |-> "none", metadata |-> NoMetadata]
        ELSE IF e.content.form = "undecodable"
        THEN [outcome |-> "raise", raised |-> "UnicodeDecodeError", metadata |-> NoMetadata]
        ELSE IF e.content.form # "json"
        THEN [outcome |-> "None", raised |-> "none", metadata |-> NoMetadata]
        ELSE IF e.content.top # "object"
        THEN [outcome |-> "raise", raised |-> "AttributeError", metadata |-> NoMetadata]
        ELSE [outcome |-> "dict", raised |-> "none",
              metadata |-> metadata_of(root, json_file, e.content.members, e.mtime)]

\* csv.DictWriter: None is written as the empty field, anything else as str()
csv_field(v) == IF v.type = "null" THEN <<>> ELSE v.s

csv_row(metadata) == [k \in 1..Len(CSV_HEADERS) |-> csv_field(metadata[CSV_HEADERS[k]])]

\* mutant: writeheader() is left out
csv_rows_only(recs) == [k \in 1..Len(recs) |-> csv_row(recs[k])]

\* writeheader() followed by writerows(records)
csv_rows(recs) == <<CSV_HEADERS>> \o [k \in 1..Len(recs) |-> csv_row(recs[k])]

\* mutant: the file is opened with 'a' and keeps what it held
opened_a(prior, rows) == prior \o rows

\* open(output_file, 'w'): the text the file holds once the block is left
opened_w(prior, rows) == rows

\* the orders in which a directory walk may yield the members of S
RECURSIVE Orders(_)
Orders(S) ==
    IF S = {} THEN {<<>>}
    ELSE UNION {{<<x>> \o o : o \in Orders(S \ {x})} : x \in S}

\* ------------------------------------------------------- initial states
RootPlain == <<Anchor, n_srv, n_repo>>                    \* /srv/repo
RootVenv  == <<Anchor, n_srv, n_venv, n_repo>>            \* /srv/venv/repo

Script(root) == root \o <<n_github, n_scripts, n_script_py>>   \* __file__

\* REPO_ROOT = Path(__file__).parent.parent.parent
repo_root(file) == parent(parent(parent(file)))

RelA_json  == <<n_a_json>>
RelA_x     == <<n_a, n_x_json>>
RelA_dot   == <<n_a, DotJson>>
RelA_jj    == <<n_a, n_jj>>
RelGit     == <<n_git, n_a, n_x_json>>
RelVenv    == <<n_a, n_venv, n_x_json>>
RelTxt     == <<n_b_txt>>

RelMain     == {RelA_json, RelA_x, RelA_dot, RelA_jj}
RelDiscover == {RelA_json, RelA_x, RelA_dot, RelA_jj, RelGit, RelVenv, RelTxt}

LabelA == JsonObject("label" :> StrA)
Plain  == JsonObject(NoMembers)

MainEntries == {DirEntry, Unreadable, File(Undecodable, 1), File(InvalidJson, 1),
                File(LabelA, 1), File(JsonArray, 1)}
DiscoverEntries == {DirEntry, File(Plain, 1)}
JsonValues  == {StrA, Num5, JsonNull}
ExtractEntries ==
    {File(JsonArray, 1)} \cup
    UNION {{File(JsonObject(m), 1) : m \in [D -> JsonValues]} : D \in SUBSET FIELDS}

OutDefault(root) == root \o <<n_default>>                 \* vocabulary_index.csv
OutInput(root)   == root \o RelA_x                        \* a/x.json
OutNested(root)  == root \o <<n_a_json, n_index>>         \* a.json/index.csv

Tree(root, S, c) ==
    [p \in {root \o r : r \in S} |-> c[relative_to(p, root)]]
        @@ (Script(root) :> File(NoContent, 1))

InitFrom(Roots, Rel, Entries, Outs, bound) ==
    /\ \E root \in Roots : REPO_ROOT = repo_root(Script(root))
    /\ \E o \in Outs : output = o[REPO_ROOT]
    /\ \E S \in SUBSET Rel :
         /\ Cardinality(S) <= bound
         /\ \E c \in [S -> Entries] :
              \E stale \in BOOLEAN :
                 LET base == Tree(REPO_ROOT, S, c)
                 IN  fs = IF stale /\ Entry(base, output).kind = "absent"
                                   /\ mkdir(base, parent(output)).raised = "none"
                           THEN (output :> File(CsvText(<<CSV_HEADERS>>), 1)) @@ base
                           ELSE base
    /\ now = 2
    /\ pc = "mkdir"
    /\ exc = "none"
    /\ json_files = <<>>
    /\ i = 1
    /\ records = <<>>
    /\ warnings = <<>>
    /\ runs = 0
    /\ indexed = <<>>
    /\ before = Entry(fs, output)
    /\ prev = [rows |-> <<>>, indexed |-> <<>>]
    /\ scans = <<>>

Init ==
    InitFrom({RootPlain}, RelMain, MainEntries,
             {[r \in {RootPlain} |-> OutDefault(r)], [r \in {RootPlain} |-> OutInput(r)],
              [r \in {RootPlain} |-> OutNested(r)]}, MaxFiles)

InitDiscover ==
    InitFrom({RootPlain, RootVenv}, RelDiscover, DiscoverEntries,
             {[r \in {RootPlain, RootVenv} |-> OutDefault(r)]}, MaxTree)

InitExtract ==
    InitFrom({RootPlain}, {RelA_x}, ExtractEntries,
             {[r \in {RootPlain} |-> OutDefault(r)]}, 1)

\* ------------------------------------------------------- generate_index
\* mutant: the output file is opened for writing before the scan
MkdirAndOpen ==
    /\ pc = "mkdir"
    /\ LET made == mkdir(fs, parent(output))
       IN  IF made.raised # "none"
           THEN /\ pc' = "crashed"
                /\ exc' = made.raised
                /\ fs' = fs
           ELSE /\ pc' = "find"
                /\ exc' = exc
                /\ fs' = IF Entry(made.fs, output).kind = "dir" THEN made.fs
                         ELSE (output :> File(CsvText(<<>>), now)) @@ made.fs
    /\ UNCHANGED <<REPO_ROOT, output, now, json_files, i, records, warnings,
                   runs, indexed, before, prev, scans>>

\* output_file.parent.mkdir(parents=True, exist_ok=True)
Mkdir ==
    /\ pc = "mkdir"
    /\ LET made == mkdir(fs, parent(output))
       IN  IF made.raised # "none"
           THEN /\ pc' = "crashed"
                /\ exc' = made.raised
                /\ fs' = fs
           ELSE /\ pc' = "find"
                /\ exc' = exc
                /\ fs' = made.fs
    /\ UNCHANGED <<REPO_ROOT, output, now, json_files, i, records, warnings,
                   runs, indexed, before, prev, scans>>

\* json_files = find_json_files(REPO_ROOT)
Discover ==
    /\ pc = "find"
    /\ \E listing \in Orders(rglob(fs, REPO_ROOT, JSON_PATTERN)) :
         /\ json_files' = find_json_files(listing)
         /\ scans' = Append(scans, [tree |-> Paths(fs), result |-> json_files'])
    /\ warnings' = IF json_files' = <<>> THEN <<"No JSON files found to index.">> ELSE <<>>
    /\ i' = 1
    /\ records' = <<>>
    /\ indexed' = <<>>
    /\ pc' = "loop"
    /\ UNCHANGED <<REPO_ROOT, output, fs, now, exc, runs, before, prev>>

\* one iteration of the loop over json_files
ExtractStep ==
    /\ pc = "loop"
    /\ i <= Len(json_files)
    /\ LET r == extract_metadata(fs, REPO_ROOT, json_files[i])
       IN  CASE r.outcome = "raise" ->
                  /\ pc' = "crashed"
                  /\ exc' = r.raised
                  /\ UNCHANGED <<i, records, indexed, warnings>>
             [] r.outcome = "None" ->
                  /\ warnings' = Append(warnings, "Warning: Could not read")
                  /\ i' = i + 1
                  /\ UNCHANGED <<pc, exc, records, indexed>>
             [] OTHER ->
                  /\ records' = Append(records, r.metadata)
                  /\ indexed' = Append(indexed, json_files[i])
                  /\ i' = i + 1
                  /\ UNCHANGED <<pc, exc, warnings>>
    /\ UNCHANGED <<REPO_ROOT, output, fs, now, json_files, runs, before, prev, scans>>

\* with open(output_file, 'w') ... writeheader(); writerows(records)
WriteCsv ==
    /\ pc = "loop"
    /\ i > Len(json_files)
    /\ LET e == Entry(fs, output)
       IN  IF e.kind = "dir"
           THEN /\ pc' = "crashed"
                /\ exc' = "IsADirectoryError"
                /\ UNCHANGED <<fs, now, runs>>
           ELSE IF e.kind = "file" /\ ~e.perm
           THEN /\ pc' = "crashed"
                /\ exc' = "PermissionError"
                /\ UNCHANGED <<fs, now, runs>>
           ELSE /\ fs' = (output :> File(CsvText(opened_w(e.content.rows, csv_rows(records))), now)) @@ fs
                /\ now' = now + 1
                /\ runs' = runs + 1
                /\ pc' = "done"
                /\ exc' = exc
    /\ UNCHANGED <<REPO_ROOT, output, json_files, i, records, warnings,
                   indexed, before, prev, scans>>

\* the script is invoked again with the same arguments
Rerun ==
    /\ pc = "done"
    /\ runs < MaxRuns
    /\ pc' = "mkdir"
    /\ json_files' = <<>>
    /\ i' = 1
    /\ records' = <<>>
    /\ warnings' = <<>>
    /\ indexed' = <<>>
    /\ before' = Entry(fs, output)
    /\ prev' = [rows |-> Entry(fs, output).content.rows, indexed |-> indexed]
    /\ UNCHANGED <<REPO_ROOT, output, fs, now, exc, runs, scans>>

Next == Mkdir \/ Discover \/ ExtractStep \/ WriteCsv \/ Rerun

Spec         == Init /\ [][Next]_vars
SpecDiscover == InitDiscover /\ [][Next]_vars
SpecExtract  == InitExtract /\ [][Next]_vars

\* ======================================================= properties
ScanErrors == {"UnicodeDecodeError", "AttributeError"}

\* the file cannot be read or is not JSON text
ReadOrParseFails(e) == e.kind # "file" \/ ~e.perm \/ e.content.form # "json"

Members(path) == Entry(fs, path).content.members

Rows == Entry(fs, output).content.rows

\* str() of an absolute path
abs_str(path) == Anchor \o str_path(Tail(path))

\* C1: a file whose read or parse fails yields no record and never aborts the
\* run: the run does not die in the scan on such a file, and no record comes
\* from one.
C1_PerFileFailureIsolation ==
    /\ (pc = "crashed" /\ exc \in ScanErrors)
          => ~ReadOrParseFails(Entry(fs, json_files[i]))
    /\ pc = "loop" =>
          \A k \in 1..(i - 1) :
             ReadOrParseFails(Entry(fs, json_files[k]))
                => \A j \in 1..Len(indexed) : indexed[j] # json_files[k]

\* C2: no path that discover returns, and no path a record is built from, has
\* a component equal to an excluded directory name.
C2_ExclusionSoundness ==
    /\ \A k \in 1..Len(json_files) :
          \A j \in 1..Len(json_files[k]) : json_files[k][j] \notin EXCLUDE_DIRS
    /\ \A k \in 1..Len(indexed) :
          \A j \in 1..Len(indexed[k]) : indexed[k][j] \notin EXCLUDE_DIRS

C2_Witness ==
    /\ pc = "loop"
    /\ json_files # <<>>
    /\ \E p \in rglob(fs, REPO_ROOT, JSON_PATTERN) :
          \E j \in 1..Len(p) : p[j] \in EXCLUDE_DIRS

\* C3: the CSV that generate writes is the header row followed by one row per
\* discovered path whose extraction succeeded, in the order of discovery; when
\* discover returns no path the run still ends normally (the output file being
\* one that can be opened for writing) and the file holds the header row alone.
C3_OutputContent ==
    [][/\ (pc = "loop" /\ pc' = "done") =>
             LET ok(path) == extract_metadata(fs, REPO_ROOT, path).outcome = "dict"
                 good     == SelectSeq(json_files, ok)
             IN  Entry(fs', output).content.rows =
                    <<CSV_HEADERS>> \o
                    [k \in 1..Len(good) |->
                        csv_row(extract_metadata(fs, REPO_ROOT, good[k]).metadata)]
       /\ (pc = "loop" /\ json_files = <<>> /\ Entry(fs, output).kind # "dir"
             /\ (Entry(fs, output).kind = "file" => Entry(fs, output).perm))
          => (pc' = "done" /\ Entry(fs', output).content.rows = <<CSV_HEADERS>>)]_vars

C3_Witness ==
    /\ pc = "done"
    /\ Len(Rows) = 3
    /\ Len(json_files) = 3

\* C4: for a JSON object, extraction succeeds whatever keys are missing; the
\* record holds the empty string for an absent key and the file's value for a
\* present one, with id, filename and last_modified taken from the path.
C4_MissingFieldsDefault ==
    pc \in {"loop", "crashed"} =>
       /\ \A k \in 1..Len(records) :
             /\ \A key \in FIELDS :
                   records[k][key] = IF key \in DOMAIN Members(indexed[k])
                                     THEN Members(indexed[k])[key] ELSE EmptyStr
             /\ records[k]["id"].type = "string" /\ records[k]["id"].s # <<>>
             /\ records[k]["filename"] = PyStr(indexed[k][Len(indexed[k])])
             /\ records[k]["last_modified"] = PyStr(isoformat(Entry(fs, indexed[k]).mtime))
       /\ \A k \in 1..Len(json_files) :
             LET e == Entry(fs, json_files[k])
             IN  (~ReadOrParseFails(e) /\ e.content.top = "object") =>
                    /\ k < i => \E j \in 1..Len(indexed) : indexed[j] = json_files[k]
                    /\ k = i => pc # "crashed"

C4_Witness ==
    /\ pc = "loop"
    /\ Len(records) = 1
    /\ DOMAIN Members(indexed[1]) = {"label", "url"}
    /\ records[1]["label"] = StrA
    /\ records[1]["prefix"] = EmptyStr

\* C5: for valid JSON of any shape every field of the record is a string, the
\* empty one when the key is absent or its value is not a string, and the run
\* does not abort.
C5_UnexpectedShapeDefaults ==
    pc \in {"loop", "crashed"} =>
       /\ \A k \in 1..Len(records) : \A key \in FIELDS :
             /\ records[k][key].type = "string"
             /\ (key \notin DOMAIN Members(indexed[k])
                   \/ Members(indexed[k])[key].type # "string")
                  => records[k][key] = EmptyStr
       /\ (pc = "crashed" /\ exc \in ScanErrors)
             => Entry(fs, json_files[i]).content.form # "json"

\* C6: every *.json file under the root that has no excluded directory between
\* the root and itself is returned by discover exactly once, wherever the
\* root lies.
C6_DiscoveryCompleteness ==
    pc = "loop" =>
       \A p \in Paths(fs) :
          ( /\ IsPrefix(REPO_ROOT, p) /\ Len(p) > Len(REPO_ROOT)
            /\ Entry(fs, p).kind = "file"
            /\ Len(p[Len(p)]) >= 5
            /\ SubSeq(p[Len(p)], Len(p[Len(p)]) - 4, Len(p[Len(p)])) = DotJson
            /\ \A j \in (Len(REPO_ROOT) + 1)..Len(p) : p[j] \notin EXCLUDE_DIRS )
          => Cardinality({k \in 1..Len(json_files) : json_files[k] = p}) = 1

\* C7 (as stated): discover's result is strictly ascending in the
\* lexicographic order of the path strings, and equal trees give equal results.
C7_SortedByPathString ==
    /\ \A a \in 1..Len(scans) : \A k, l \in 1..Len(scans[a].result) :
          k < l => StrLess(abs_str(scans[a].result[k]), abs_str(scans[a].result[l]))
    /\ \A a, b \in 1..Len(scans) :
          scans[a].tree = scans[b].tree => scans[a].result = scans[b].result

\* C7 (amended): discover's result is strictly ascending, hence free of
\* duplicates, in the lexicographic order of the paths' part sequences, each
\* part compared as a string, and equal trees give equal results.
C7_SortedByParts ==
    /\ \A a \in 1..Len(scans) : \A k, l \in 1..Len(scans[a].result) :
          k < l =>
             \E d \in 1..Len(scans[a].result[l]) :
                /\ d <= Len(scans[a].result[k]) + 1
                /\ \A j \in 1..(d - 1) : scans[a].result[k][j] = scans[a].result[l][j]
                /\ \/ d = Len(scans[a].result[k]) + 1
                   \/ StrLess(scans[a].result[k][d], scans[a].result[l][d])
    /\ \A a, b \in 1..Len(scans) :
          scans[a].tree = scans[b].tree => scans[a].result = scans[b].result

C7_Witness ==
    /\ Len(scans) = 2
    /\ scans[1].tree = scans[2].tree
    /\ Len(scans[2].result) >= 2
    /\ \E k, l \in 1..Len(scans[2].result) :
          k < l /\ StrLess(abs_str(scans[2].result[l]), abs_str(scans[2].result[k]))

\* C8 (as stated): a second run leaves the CSV the first run left, whatever
\* the output path.
C8_Idempotent ==
    /\ runs >= 1 => pc # "crashed"
    /\ (pc = "done" /\ runs >= 2) => Rows = prev.rows

\* C8 (amended): a second run completes and leaves the CSV the first run left,
\* for every output path that is not itself one of the files the first run
\* built a record from.
C8_IdempotentUnlessOutputIndexed ==
    /\ runs >= 1 => pc # "crashed"
    /\ (pc = "done" /\ runs >= 2
          /\ \A k \in 1..Len(prev.indexed) : prev.indexed[k] # output)
       => Rows = prev.rows

C8_Witness ==
    /\ pc = "done"
    /\ runs = 2
    /\ output = OutInput(REPO_ROOT)
    /\ before.content.form = "csv"
    /\ Len(prev.rows) >= 2
    /\ \E k \in 1..Len(json_files) : json_files[k] = output

\* C9: the id of a record is its file's path relative to the root without the
\* extension, and no two records carry the same id.
C9_UniqueIds ==
    pc \in {"loop", "done"} =>
       /\ \A k \in 1..Len(records) :
             records[k]["id"] =
                PyStr(str_path(with_suffix_empty(relative_to(indexed[k], REPO_ROOT))))
       /\ \A k, l \in 1..Len(records) :
             k # l => records[k]["id"] # records[l]["id"]

\* C10: until the scan has finished the output file is as the run found it:
\* a run that dies in discovery or extraction leaves an earlier output
\* unchanged and creates none where none was.
C10_PriorOutputUntouched ==
    pc # "done" => Entry(fs, output) = before

C10_Witness ==
    /\ pc = "crashed"
    /\ exc \in ScanErrors
    /\ before.kind = "file"
    /\ before.content.form = "csv"
    /\ Entry(fs, output) = before

====
